---- MODULE Spec2Model ----
(***************************************************************************)
(* ESP32 FlashMate (src/flasher.py): the project catalog (menu_items), the *)
(* validator (Check.for_issues), the conflict detector                     *)
(* (Check.for_memory_address_conflicts), re-validation (Check.project) and *)
(* the one configparser object that ESP32 and Check share.                 *)
(*                                                                         *)
(* Python strings are sequences of one-character strings, so that          *)
(* str.lower, str.endswith, str.startswith, str.isdigit and int() are      *)
(* computed and not assumed.                                               *)
(***************************************************************************)
EXTENDS Integers, Sequences, FiniteSets, TLC

\* ------------------------------------------------------------------------
\* Bounds of the model
\* ------------------------------------------------------------------------

\* number of fixes the user asks for: a project folder changed from the
\* issues menu, by hand or by regenerating its configuration, or the
\* auto-fix of the baud rate accepted in a communication
MaxFixes == 1

\* ------------------------------------------------------------------------
\* Python string primitives
\* ------------------------------------------------------------------------

\* The characters of the model are those of Latin-1, without the control
\* characters other than tab, newline, carriage return and form feed.  Its
\* upper-case letters, and at the same place the letter str.lower gives for
\* each
UpperLetters ==
  <<"A","B","C","D","E","F","G","H","I","J","K","L","M",
    "N","O","P","Q","R","S","T","U","V","W","X","Y","Z",
    "À","Á","Â","Ã","Ä","Å","Æ","Ç","È","É","Ê","Ë","Ì","Í","Î",
    "Ï","Ð","Ñ","Ò","Ó","Ô","Õ","Ö","Ø","Ù","Ú","Û","Ü","Ý","Þ">>

LowerLetters ==
  <<"a","b","c","d","e","f","g","h","i","j","k","l","m",
    "n","o","p","q","r","s","t","u","v","w","x","y","z",
    "à","á","â","ã","ä","å","æ","ç","è","é","ê","ë","ì","í","î",
    "ï","ð","ñ","ò","ó","ô","õ","ö","ø","ù","ú","û","ü","ý","þ">>

\* the decimal digits, which int() reads
Digits == <<"0","1","2","3","4","5","6","7","8","9">>

\* the other characters str.isdigit accepts: int() raises ValueError on them
SuperscriptDigits == {"²", "³", "¹"}

HexChars ==
  {"0","1","2","3","4","5","6","7","8","9",
   "a","b","c","d","e","f","A","B","C","D","E","F"}

\* str.lower on one character
LowerChar(c) ==
  IF \E i \in DOMAIN UpperLetters : UpperLetters[i] = c
  THEN LowerLetters[CHOOSE i \in DOMAIN UpperLetters : UpperLetters[i] = c]
  ELSE c

\* configparser.RawConfigParser.optionxform: option names are lower-cased
optionxform(s) == [i \in DOMAIN s |-> LowerChar(s[i])]

\* s.endswith(suffix)
EndsWith(s, suffix) ==
  /\ Len(s) >= Len(suffix)
  /\ SubSeq(s, Len(s) - Len(suffix) + 1, Len(s)) = suffix

\* s.startswith(prefix)
StartsWith(s, prefix) ==
  /\ Len(s) >= Len(prefix)
  /\ SubSeq(s, 1, Len(prefix)) = prefix

DotBin == <<".","b","i","n">>

\* f.endswith('.bin')
IsBinName(s) == EndsWith(s, DotBin)

\* s.isdigit(): non-empty and every character a digit
IsDigit(s) ==
  /\ Len(s) > 0
  /\ \A i \in DOMAIN s :
       \/ \E d \in DOMAIN Digits : Digits[d] = s[i]
       \/ s[i] \in SuperscriptDigits

\* int(s) raises ValueError, for a string s that s.isdigit() accepts
IntRaises(s) == \E i \in DOMAIN s : s[i] \in SuperscriptDigits

DigitVal(c) == (CHOOSE d \in DOMAIN Digits : Digits[d] = c) - 1

\* int(s) for a string of decimal digits
RECURSIVE ToInt(_)
ToInt(s) ==
  IF Len(s) = 0 THEN 0
  ELSE 10 * ToInt(SubSeq(s, 1, Len(s) - 1)) + DigitVal(s[Len(s)])

\* ', '.join(names)
RECURSIVE Join(_)
Join(names) ==
  IF Len(names) = 0 THEN <<>>
  ELSE IF Len(names) = 1 THEN names[1]
  ELSE names[1] \o <<",", " ">> \o Join(Tail(names))

\* x in s, for a Python list s
InList(x, s) == \E i \in DOMAIN s : s[i] = x

\* Python None where a string is expected; f"{None}" prints as None
NoneStr == <<"None">>

\* ------------------------------------------------------------------------
\* configparser.ConfigParser(): the default section and an ordered list of
\* sections, each an ordered list of <<option, value>> pairs (Python dicts
\* keep insertion order).  The parser is strict (a section or an option
\* repeated in one file raises) and interpolating (a value is expanded when
\* it is read with get or items).  While a file is read every value it sets
\* is a list of lines; the lists are joined into strings when the end of
\* the file is reached, so that a read that raises leaves lists behind.
\* ------------------------------------------------------------------------

SettingsName == "Settings"

\* configparser.DEFAULTSECT
DefaultSect == "DEFAULT"

\* the option name 'baud_rate', which is optionxform('Baud_Rate')
BaudKey == <<"b","a","u","d","_","r","a","t","e">>

\* configparser.MAX_INTERPOLATION_DEPTH
MaxInterpolationDepth == 10

\* where a string is expected: the call raised an exception
RaiseStr == <<"Raise">>

\* configparser.ConfigParser(): defaults is self._defaults, sections is
\* self._sections, lists holds <<section, option, lines>> for every value
\* that is still a list of lines
EmptyParser == [defaults |-> <<>>, sections |-> <<>>, lists |-> {}]

\* option in d
HasOpt(opts, k) == \E i \in DOMAIN opts : opts[i][1] = k

\* d.get(option, fallback)
GetOpt(opts, k, fallback) ==
  IF HasOpt(opts, k)
  THEN opts[CHOOSE i \in DOMAIN opts : opts[i][1] = k][2]
  ELSE fallback

\* d[option] = value: an existing option keeps its place, a new one is
\* appended
SetOpt(opts, k, v) ==
  IF HasOpt(opts, k)
  THEN [i \in DOMAIN opts |-> IF opts[i][1] = k THEN <<k, v>> ELSE opts[i]]
  ELSE Append(opts, <<k, v>>)

\* config.sections(): the default section is not listed
Sections(cfg) == {cfg.sections[i].name : i \in DOMAIN cfg.sections}

\* self._sections[s], and self._defaults for the default section, as the
\* list of the stored items
SectionOpts(cfg, s) ==
  IF s = DefaultSect THEN cfg.defaults
  ELSE cfg.sections[CHOOSE i \in DOMAIN cfg.sections :
                      cfg.sections[i].name = s].opts

\* the stored value of option k of section s is a list of lines
IsList(cfg, s, k) == \E t \in cfg.lists : t[1] = s /\ t[2] = k

\* the lines of a stored value that is a list
ListLines(cfg, s, k) ==
  (CHOOSE t \in cfg.lists : t[1] = s /\ t[2] = k)[3]

\* cursect[k] = v for the stored options of section s
PutOpt(cfg, s, k, v) ==
  IF s = DefaultSect
  THEN [cfg EXCEPT !.defaults = SetOpt(cfg.defaults, k, v)]
  ELSE [cfg EXCEPT !.sections =
          [i \in DOMAIN cfg.sections |->
             IF cfg.sections[i].name = s
             THEN [name |-> s, opts |-> SetOpt(cfg.sections[i].opts, k, v)]
             ELSE cfg.sections[i]]]

\* the stored value of option k of section s becomes the list lines; the
\* string stored with the option is what the lines are joined to
PutLines(cfg, s, k, lines) ==
  [PutOpt(cfg, s, k, lines[1]) EXCEPT
     !.lists = {t \in cfg.lists : ~(t[1] = s /\ t[2] = k)}
               \cup {<<s, k, lines>>}]

\* an option line of a file: cursect[optname] = [optval]
StoreLine(cfg, s, k, v) == PutLines(cfg, s, k, <<v>>)

\* the empty line that ends a section of a file:
\* cursect[optname].append('')
BlankLine(cfg, s, k) ==
  PutLines(cfg, s, k, Append(ListLines(cfg, s, k), <<>>))

\* the stored value of option k of section s is a string again
JoinOne(cfg, s, k) ==
  [cfg EXCEPT !.lists = {t \in cfg.lists : ~(t[1] = s /\ t[2] = k)}]

\* RawConfigParser._join_multiline_values: every list becomes the string
\* of its lines
JoinValues(cfg) == [cfg EXCEPT !.lists = {}]

\* the state of RawConfigParser._read: the parser, the sections and the
\* options the file has added so far (elements_added), and whether
\* DuplicateSectionError or DuplicateOptionError was raised
Reading(cfg) == [config |-> cfg, sects |-> {}, opts |-> {}, raised |-> FALSE]

\* the option lines of one section of a file, stored one after the other
\* under their lower-cased names; an option the file has set before raises
\* DuplicateOptionError
RECURSIVE ReadOpts(_, _, _)
ReadOpts(st, s, entries) ==
  IF st.raised \/ Len(entries) = 0 THEN st
  ELSE
    LET k == optionxform(Head(entries)[1])
    IN IF <<s, k>> \in st.opts
       THEN [st EXCEPT !.raised = TRUE]
       ELSE ReadOpts([st EXCEPT
                        !.config = StoreLine(st.config, s, k, Head(entries)[2]),
                        !.opts = st.opts \cup {<<s, k>>}],
                     s, Tail(entries))

\* a section header of a file: a section the parser holds is reused, and
\* raises DuplicateSectionError when the file has named it before; the
\* default section is never a section of the parser; any other is created
ReadHeader(st, s) ==
  IF s \in Sections(st.config)
  THEN IF s \in st.sects THEN [st EXCEPT !.raised = TRUE]
       ELSE [st EXCEPT !.sects = st.sects \cup {s}]
  ELSE IF s = DefaultSect THEN st
  ELSE [st EXCEPT
          !.config = [st.config EXCEPT
                        !.sections = Append(st.config.sections,
                                            [name |-> s, opts |-> <<>>])],
          !.sects = st.sects \cup {s}]

\* the end of a section of a file, read up to the state st: more says that
\* another section follows, after an empty line
EndSection(st, sec, more) ==
  IF st.raised \/ ~more \/ Len(sec.opts) = 0 THEN st
  ELSE [st EXCEPT
          !.config = BlankLine(st.config, sec.name,
                               optionxform(sec.opts[Len(sec.opts)][1]))]

\* one section of a file is merged into the parser, which never clears a
\* section
ReadSection(st, sec, more) ==
  EndSection(ReadOpts(ReadHeader(st, sec.name), sec.name, sec.opts),
             sec, more)

RECURSIVE ReadSections(_, _)
ReadSections(st, file) ==
  IF st.raised \/ Len(file) = 0 THEN st
  ELSE ReadSections(ReadSection(st, Head(file), Len(file) > 1), Tail(file))

\* the end of RawConfigParser._read in the state st: the values are joined
\* unless an exception has left the loop
EndRead(st) ==
  [config |-> IF st.raised THEN st.config ELSE JoinValues(st.config),
   raised |-> st.raised]

\* RawConfigParser._read on the sections of a file: the parser it leaves,
\* and whether it raised
ReadFile(cfg, file) == EndRead(ReadSections(Reading(cfg), file))

\* self.config.read(config_path): a file that does not exist is skipped
config_read(cfg, dir) ==
  IF dir.has_config THEN ReadFile(cfg, dir.file)
  ELSE [config |-> cfg, raised |-> FALSE]

\* the names of a list of options
KeysOf(opts) == [i \in DOMAIN opts |-> opts[i][1]]

\* the options a section is read with: its own, then those of the default
\* section it does not hold (the keys of self.config[s])
ProxyKeys(cfg, s) ==
  KeysOf(SectionOpts(cfg, s)
         \o SelectSeq(cfg.defaults,
                      LAMBDA e : ~HasOpt(SectionOpts(cfg, s), e[1])))

\* the section an option of s is read from: s itself, else the default
\* section
HomeOf(cfg, s, k) ==
  IF HasOpt(SectionOpts(cfg, s), k) THEN s ELSE DefaultSect

\* option k can be read in section s
Readable(cfg, s, k) ==
  HasOpt(SectionOpts(cfg, s), k) \/ HasOpt(cfg.defaults, k)

\* the first place of character c in s, 0 when s does not hold it
Find(s, c) ==
  IF \E i \in DOMAIN s : s[i] = c
  THEN CHOOSE i \in DOMAIN s : s[i] = c /\ \A j \in 1..(i - 1) : s[j] # c
  ELSE 0

\* a + b, unless one of them raised
Cat(a, b) == IF a = RaiseStr \/ b = RaiseStr THEN RaiseStr ELSE a \o b

\* the stored string of option k, as section s reads it
RawValue(cfg, s, k) == GetOpt(SectionOpts(cfg, HomeOf(cfg, s, k)), k, <<>>)

\* BasicInterpolation._interpolate_some on the text rest of an option of
\* section s: %% is a percent sign, %(name)s the value of option name,
\* expanded in its turn one level deeper; anything else after a percent
\* sign, an option that cannot be read, a value that is a list and a depth
\* above MAX_INTERPOLATION_DEPTH raise
RECURSIVE InterpolateSome(_, _, _, _)

\* the reference rest[1..close], whose name is var and whose value is v
InterpolateValue(cfg, s, rest, depth, close, v) ==
  Cat(IF Find(v, "%") > 0 THEN InterpolateSome(cfg, s, v, depth + 1) ELSE v,
      InterpolateSome(cfg, s, SubSeq(rest, close + 2, Len(rest)), depth))

\* v = map[var]
InterpolateVar(cfg, s, rest, depth, close, var) ==
  IF ~Readable(cfg, s, var) THEN RaiseStr
  ELSE IF IsList(cfg, HomeOf(cfg, s, var), var) THEN RaiseStr
  ELSE InterpolateValue(cfg, s, rest, depth, close, RawValue(cfg, s, var))

\* m = self._KEYCRE.match(rest), the pattern being %\(([^)]+)\)s: close is
\* the place of the first closing bracket
InterpolateKey(cfg, s, rest, depth, close) ==
  IF close < 4 \/ close = Len(rest) THEN RaiseStr
  ELSE IF rest[close + 1] # "s" THEN RaiseStr
  ELSE InterpolateVar(cfg, s, rest, depth, close,
                      optionxform(SubSeq(rest, 3, close - 1)))

\* one round of the loop 'while rest:', p being rest.find("%") + 1
InterpolateAt(cfg, s, rest, depth, p) ==
  IF p = 0 THEN rest
  ELSE IF p > 1
  THEN Cat(SubSeq(rest, 1, p - 1),
           InterpolateSome(cfg, s, SubSeq(rest, p, Len(rest)), depth))
  ELSE IF Len(rest) < 2 THEN RaiseStr
  ELSE IF rest[2] = "%"
  THEN Cat(<<"%">>, InterpolateSome(cfg, s, SubSeq(rest, 3, Len(rest)), depth))
  ELSE IF rest[2] = "("
  THEN InterpolateKey(cfg, s, rest, depth, Find(rest, ")"))
  ELSE RaiseStr

InterpolateSome(cfg, s, rest, depth) ==
  IF depth > MaxInterpolationDepth THEN RaiseStr
  ELSE InterpolateAt(cfg, s, rest, depth, Find(rest, "%"))

\* the value of option k of section s as get and items return it
ValueOf(cfg, s, k) ==
  IF IsList(cfg, HomeOf(cfg, s, k), k) THEN RaiseStr
  ELSE InterpolateSome(cfg, s, RawValue(cfg, s, k), 1)

\* d[option] of config.get, option being the name after optionxform: the
\* fallback when section and defaults do not hold it
GetValue(cfg, s, k, fallback) ==
  IF ~Readable(cfg, s, k) THEN fallback ELSE ValueOf(cfg, s, k)

\* config.get(s, option, fallback=fallback), and self.config[s].get(option)
\* with fallback None
config_get(cfg, s, option, fallback) ==
  IF s \notin Sections(cfg) THEN fallback
  ELSE GetValue(cfg, s, optionxform(option), fallback)

\* the options keys of section s, each with its value
ItemsOf(cfg, s, keys) ==
  [i \in DOMAIN keys |-> <<keys[i], ValueOf(cfg, s, keys[i])>>]

\* self.config[s].items(): the options in the order of the keys of the
\* section, each with its value
ProxyItems(cfg, s) == ItemsOf(cfg, s, ProxyKeys(cfg, s))

\* config.items(s): the options of the default section first, then those
\* only the section holds, each with its value
config_items(cfg, s) ==
  ItemsOf(cfg, s,
          KeysOf(cfg.defaults
                 \o SelectSeq(SectionOpts(cfg, s),
                              LAMBDA e : ~HasOpt(cfg.defaults, e[1]))))

\* one of the values of items raised
AnyRaised(items) == \E i \in DOMAIN items : items[i][2] = RaiseStr

\* config.get('Settings', 'Baud_Rate', fallback=None)
config_get_baud(cfg) ==
  config_get(cfg, SettingsName, <<"B","a","u","d","_","R","a","t","e">>,
             NoneStr)

\* ------------------------------------------------------------------------
\* Check: the validator and the conflict detector
\* ------------------------------------------------------------------------

\* Check.esp32_supported_baudrates
esp32_supported_baudrates ==
  <<50, 75, 110, 134, 150, 200, 300, 600, 1200, 1800, 2400, 4800, 9600,
    14400, 19200, 28800, 38400, 57600, 74880, 115200, 128000, 230400,
    256000, 460800, 512000, 921600, 1000000, 1152000, 1500000, 2000000>>

\* the rate above which a baud rate is reported as unusually high
HighBaudRate == 2000000

\* An issue is one message of the validator: its kind is the fixed text of
\* the message, and name, other and value the strings formatted into it.
Issue(kind, name, other, value) ==
  [kind |-> kind, name |-> name, other |-> other, value |-> value]

\* A warning is one baud-rate message with the rate formatted into it.
Warning(kind, rate) == [kind |-> kind, rate |-> rate]

\* [f for f in os.listdir(folder_path) if f.endswith('.bin')]
RECURSIVE ListBinFiles(_)
ListBinFiles(listing) ==
  IF Len(listing) = 0 THEN <<>>
  ELSE IF IsBinName(Head(listing).name)
       THEN <<Head(listing).name>> \o ListBinFiles(Tail(listing))
       ELSE ListBinFiles(Tail(listing))

\* [f for f in os.listdir(folder_path) if os.path.isdir(...)]
RECURSIVE ListSubfolders(_)
ListSubfolders(listing) ==
  IF Len(listing) = 0 THEN <<>>
  ELSE IF Head(listing).is_dir
       THEN <<Head(listing).name>> \o ListSubfolders(Tail(listing))
       ELSE ListSubfolders(Tail(listing))

\* [key for key in self.config['Settings'] if key.endswith('.bin')], keys
\* being the keys of self.config['Settings']
RECURSIVE ReferencedFiles(_)
ReferencedFiles(keys) ==
  IF Len(keys) = 0 THEN <<>>
  ELSE IF IsBinName(Head(keys))
       THEN <<Head(keys)>> \o ReferencedFiles(Tail(keys))
       ELSE ReferencedFiles(Tail(keys))

\* the address recorded for the current key: addresses[address] = bin_file
RecordAddress(addresses, address, bin_file) ==
  SetOpt(addresses, address, bin_file)

\* the loop of Check.for_memory_address_conflicts; addresses is the dict
\* address -> key, mem_conflicts the issues so far
RECURSIVE ConflictLoop(_, _, _, _)
ConflictLoop(cfg, bin_files, addresses, mem_conflicts) ==
  IF Len(bin_files) = 0 THEN mem_conflicts
  ELSE
    LET bin_file == Head(bin_files)
        address  == config_get(cfg, SettingsName, bin_file, NoneStr)
        found    == IF HasOpt(addresses, address)
                    THEN Append(mem_conflicts,
                                Issue("MemoryConflict", bin_file,
                                      GetOpt(addresses, address, NoneStr),
                                      address))
                    ELSE mem_conflicts
    IN ConflictLoop(cfg, Tail(bin_files),
                    RecordAddress(addresses, address, bin_file), found)

\* self.config['Settings'].get(bin_file) raises for one of bin_files: the
\* parser has no [Settings] section, or the value cannot be read
ConflictLoopRaises(cfg, bin_files) ==
  /\ Len(bin_files) > 0
  /\ \/ SettingsName \notin Sections(cfg)
     \/ \E i \in DOMAIN bin_files :
          config_get(cfg, SettingsName, bin_files[i], NoneStr) = RaiseStr

\* Check.for_memory_address_conflicts(bin_files): the conflicts, or the one
\* message of the except branch
for_memory_address_conflicts(cfg, bin_files) ==
  IF ConflictLoopRaises(cfg, bin_files)
  THEN <<Issue("UnexpectedConflictCheck", <<>>, <<>>, <<>>)>>
  ELSE ConflictLoop(cfg, bin_files, <<>>, <<>>)

\* value.startswith('0x') and all(c in '0123456789abcdefABCDEF' for c in value[2:])
IsHexAddress(value) ==
  /\ StartsWith(value, <<"0", "x">>)
  /\ \A i \in 3..Len(value) : value[i] \in HexChars

\* the loop of validate_memory_addresses over settings.items()
RECURSIVE AddressLoop(_)
AddressLoop(items) ==
  IF Len(items) = 0 THEN <<>>
  ELSE
    LET key   == Head(items)[1]
        value == Head(items)[2]
    IN (IF IsBinName(key) /\ ~IsHexAddress(value)
        THEN <<Issue("InvalidAddress", <<>>, <<>>, value)>>
        ELSE <<>>)
       \o AddressLoop(Tail(items))

\* Check.for_issues.validate_memory_addresses: the invalid addresses, or
\* the one message of the except branch when the parser has no [Settings]
\* section or one of its values cannot be read
validate_memory_addresses(cfg) ==
  IF SettingsName \notin Sections(cfg)
  THEN <<Issue("UnexpectedAddressValidation", <<>>, <<>>, <<>>)>>
  ELSE IF AnyRaised(ProxyItems(cfg, SettingsName))
  THEN <<Issue("UnexpectedAddressValidation", <<>>, <<>>, <<>>)>>
  ELSE AddressLoop(ProxyItems(cfg, SettingsName))

\* for bin_file in bin_files: if bin_file not in referenced_files: ...
RECURSIVE UnreferencedIssues(_, _)
UnreferencedIssues(bin_files, referenced_files) ==
  IF Len(bin_files) = 0 THEN <<>>
  ELSE (IF ~InList(Head(bin_files), referenced_files)
        THEN <<Issue("UnreferencedBinary", Head(bin_files), <<>>, <<>>)>>
        ELSE <<>>)
       \o UnreferencedIssues(Tail(bin_files), referenced_files)

\* for ref_file in referenced_files: if ref_file not in bin_files: ...
RECURSIVE DanglingIssues(_, _)
DanglingIssues(referenced_files, bin_files) ==
  IF Len(referenced_files) = 0 THEN <<>>
  ELSE (IF ~InList(Head(referenced_files), bin_files)
        THEN <<Issue("DanglingReference", Head(referenced_files), <<>>, <<>>)>>
        ELSE <<>>)
       \o DanglingIssues(Tail(referenced_files), bin_files)

\* if subfolders: issues.append(...)
SubfolderIssues(subfolders) ==
  IF Len(subfolders) > 0
  THEN <<Issue("SubfoldersDetected", <<>>, <<>>, Join(subfolders))>>
  ELSE <<>>

\* not baud_rate or not baud_rate.isdigit()
BaudRateRejected(baud_rate) ==
  \/ baud_rate = NoneStr
  \/ Len(baud_rate) = 0
  \/ ~IsDigit(baud_rate)

\* the issues of the baud-rate check
BaudIssues(baud_rate) ==
  IF BaudRateRejected(baud_rate)
  THEN <<Issue("InvalidBaudRate", <<>>, <<>>, <<>>)>>
  ELSE IF ToInt(baud_rate) < 0
       THEN <<Issue("NegativeBaudRate", <<>>, <<>>, baud_rate)>>
       ELSE <<>>

\* the warnings of the baud-rate check
BaudWarnings(baud_rate) ==
  IF BaudRateRejected(baud_rate) THEN <<>>
  ELSE
    LET rate == ToInt(baud_rate)
    IN (IF ~\E i \in DOMAIN esp32_supported_baudrates :
               esp32_supported_baudrates[i] = rate
        THEN <<Warning("Unusual", rate)>> ELSE <<>>)
       \o
       (IF rate > HighBaudRate
        THEN <<Warning("UnusuallyHigh", rate)>> ELSE <<>>)

\* a validator that goes on without checking that config.ini exists
ConfigExistsUnchecked(dir) == TRUE

\* os.path.exists(config_path)
ConfigExists(dir) == dir.has_config

\* Check.for_issues(folder_path), run with the parser in state cfg on the
\* folder dir: the issues, the warnings and the parser it leaves behind
for_issues(cfg, dir) ==
  IF ~ConfigExists(dir)
  THEN [issues |-> <<Issue("MissingConfig", <<>>, <<>>, <<>>)>>,
        warn |-> <<>>, config |-> cfg]
  ELSE
    LET rd   == config_read(cfg, dir)
        cfg1 == rd.config
    IN IF rd.raised
       THEN [issues |-> <<Issue("UnexpectedFolderCheck", <<>>, <<>>, <<>>)>>,
             warn |-> <<>>, config |-> cfg1]
       ELSE IF SettingsName \notin Sections(cfg1)
       THEN [issues |-> <<Issue("MissingSection", <<>>, <<>>, <<>>)>>,
             warn |-> <<>>, config |-> cfg1]
       ELSE
         LET bin_files        == ListBinFiles(dir.listing)
             referenced_files == ReferencedFiles(ProxyKeys(cfg1, SettingsName))
             subfolders       == ListSubfolders(dir.listing)
             baud_rate        == config_get_baud(cfg1)
         IN IF \/ baud_rate = RaiseStr
               \/ ~BaudRateRejected(baud_rate) /\ IntRaises(baud_rate)
            THEN [issues |-> <<Issue("UnexpectedFolderCheck",
                                     <<>>, <<>>, <<>>)>>,
                  warn |-> <<>>, config |-> cfg1]
            ELSE
              [issues |-> for_memory_address_conflicts(cfg1, bin_files)
                          \o UnreferencedIssues(bin_files, referenced_files)
                          \o DanglingIssues(referenced_files, bin_files)
                          \o SubfolderIssues(subfolders)
                          \o validate_memory_addresses(cfg1)
                          \o BaudIssues(baud_rate),
               warn |-> BaudWarnings(baud_rate),
               config |-> cfg1]

\* ------------------------------------------------------------------------
\* ESP32: the catalog (menu_items) and its operations
\* ------------------------------------------------------------------------

\* A stored issue list is a Python list or None
SomeList(l) == [is_none |-> FALSE, list |-> l]
NoneList == [is_none |-> TRUE, list |-> <<>>]

\* (folder, True if issues else False, issues if issues else [], warn if warn else [])
MenuItem(folder, issues, warn) ==
  [name |-> folder, error |-> (Len(issues) > 0),
   issues |-> SomeList(issues), warn |-> warn]

\* a re-validation that flags a project with warnings as invalid
RefreshedItemWarnInvalid(old, folder_name, refreshed_issues, refreshed_warn) ==
  [name |-> folder_name,
   error |-> (Len(refreshed_issues) > 0 \/ Len(refreshed_warn) > 0),
   issues |-> IF Len(refreshed_issues) > 0 THEN SomeList(refreshed_issues)
              ELSE NoneList,
   warn |-> old.warn]

\* the tuple Check.project stores for the project it re-validated:
\* (folder_name, error, refreshed_issues if error else None, warn)
RefreshedItem(old, folder_name, refreshed_issues, refreshed_warn) ==
  [name |-> folder_name,
   error |-> (Len(refreshed_issues) > 0),
   issues |-> IF Len(refreshed_issues) > 0 THEN SomeList(refreshed_issues)
              ELSE NoneList,
   warn |-> old.warn]

\* a re-validation loop without the name test
RefreshedIndexesAll(menu, folder_name) == DOMAIN menu

\* the entries Check.project replaces: the first one named folder_name
RefreshedIndexes(menu, folder_name) ==
  {i \in DOMAIN menu :
     /\ menu[i].name = folder_name
     /\ \A j \in 1..(i - 1) : menu[j].name # folder_name}

\* Check.project(menu_items, folder_name, folder_path), given the result of
\* its call of for_issues
project(menu, folder_name, refreshed_issues, refreshed_warn) ==
  [i \in DOMAIN menu |->
     IF i \in RefreshedIndexes(menu, folder_name)
     THEN RefreshedItem(menu[i], folder_name, refreshed_issues, refreshed_warn)
     ELSE menu[i]]

\* one entry of the log of validator calls: the folder, its content when
\* the validator ran, and what the validator returned
Call(folder, dir, res) ==
  [folder |-> folder, dir |-> dir, issues |-> res.issues, warn |-> res.warn]

\* the loop of ESP32.__load_menu_items over os.listdir(self.esp32_folder)
RECURSIVE LoadLoop(_, _, _, _, _)
LoadLoop(folders, dsk, cfg, items, log) ==
  IF Len(folders) = 0
  THEN [config |-> cfg, menu_items |-> items, log |-> log]
  ELSE
    LET folder == Head(folders)
        res    == for_issues(cfg, dsk[folder])
    IN LoadLoop(Tail(folders), dsk, res.config,
                Append(items, MenuItem(folder, res.issues, res.warn)),
                Append(log, Call(folder, dsk[folder], res)))

\* ESP32.__show_issues.delete_subdirectories: every entry of os.scandir
\* with entry.is_dir(follow_symlinks=False) is removed, so that a symbolic
\* link to a directory stays
delete_subdirectories(dir) ==
  LET RECURSIVE Keep(_)
      Keep(l) == IF Len(l) = 0 THEN <<>>
                 ELSE IF Head(l).is_dir /\ ~Head(l).is_link THEN Keep(Tail(l))
                 ELSE <<Head(l)>> \o Keep(Tail(l))
  IN [dir EXCEPT !.listing = Keep(dir.listing)]

\* the [Settings] section ESP32.__generate_config builds: the baud rate,
\* then one address per binary file in listing order
RECURSIVE GeneratedOpts(_, _, _)
GeneratedOpts(opts, bin_files, addrs) ==
  IF Len(bin_files) = 0 THEN opts
  ELSE GeneratedOpts(SetOpt(opts, optionxform(Head(bin_files)), Head(addrs)),
                     Tail(bin_files), Tail(addrs))

\* ESP32.__generate_config(folder_path): baud is the answer to the baud-rate
\* prompt, addrs the accepted answers to the address prompts; exit_typed
\* says that the user typed 'exit' at the prompt after these answers
generate_config(dir, baud, addrs, exit_typed) ==
  LET removed   == [dir EXCEPT !.has_config = FALSE, !.file = <<>>]
      bin_files == ListBinFiles(dir.listing)
  IN IF exit_typed THEN removed
     ELSE [dir EXCEPT
             !.has_config = TRUE,
             !.file = <<[name |-> SettingsName,
                         opts |-> GeneratedOpts(<<<<BaudKey, baud>>>>,
                                                bin_files, addrs)]>>]

\* {key: value for key, value in self.config.items('Settings') if key.endswith('.bin')}
RECURSIVE BinItems(_)
BinItems(items) ==
  IF Len(items) = 0 THEN <<>>
  ELSE IF IsBinName(Head(items)[1])
       THEN <<Head(items)>> \o BinItems(Tail(items))
       ELSE BinItems(Tail(items))

\* no call of esptool.main has been made
NoFlash == [made |-> FALSE, folder |-> "", baud |-> <<>>, bin_files |-> <<>>]

\* ESP32.__flash_esp32(folder_name) with the result rd of
\* self.config.read: the folder, baud rate and (file, address) pairs of the
\* call of esptool.main it makes, if any.  has_port says that a COM port
\* exists and was selected.  A read that raised, a parser without
\* [Settings] section (config.items raises NoSectionError) and a value that
\* cannot be read end in the except branch, without a call.
flash_esp32(rd, folder_name, has_port) ==
  IF rd.raised THEN NoFlash
  ELSE IF SettingsName \notin Sections(rd.config) THEN NoFlash
  ELSE
    LET baud_rate == config_get(rd.config, SettingsName, BaudKey,
                                <<"1","1","5","2","0","0">>)
        items     == config_items(rd.config, SettingsName)
        bin_files == BinItems(items)
    IN IF baud_rate = RaiseStr \/ AnyRaised(items) THEN NoFlash
       ELSE IF Len(bin_files) = 0 THEN NoFlash
       ELSE IF ~has_port THEN NoFlash
       ELSE IF \E i \in DOMAIN bin_files : Len(bin_files[i][2]) = 0
            THEN NoFlash
       ELSE [made |-> TRUE, folder |-> folder_name,
             baud |-> baud_rate, bin_files |-> bin_files]

\* ------------------------------------------------------------------------
\* ESP32: serial communication
\* ------------------------------------------------------------------------

\* str(n) for a non-negative integer
RECURSIVE IntToStr(_)
IntToStr(n) ==
  IF n < 10 THEN <<Digits[n + 1]>>
  ELSE IntToStr(n \div 10) \o <<Digits[(n % 10) + 1]>>

\* the place of x in the rising order of the list s
RankIn(x, s) == Cardinality({j \in DOMAIN s : s[j] < x}) + 1

\* sorted(s) for the list of distinct integers s, as listed (rising order)
sorted_rising(s) ==
  [k \in 1..Len(s) |-> s[CHOOSE i \in DOMAIN s : RankIn(s[i], s) = k]]

\* sorted(s, reverse=True) for a list of distinct integers s
sorted_reverse(s) ==
  [k \in 1..Len(s) |->
     s[CHOOSE i \in DOMAIN s : RankIn(s[i], s) = Len(s) + 1 - k]]

\* sorted(Check.esp32_supported_baudrates, reverse=True)
SweepRates == sorted_reverse(esp32_supported_baudrates)

\* project_name of a Temporary session: Python None
NoneName == "None"

\* One step of a communication, as it happens: ev is "start"
\* (__start_communication was called for the project by with the known
\* rate), "opt_in" or "opt_out" (the answer to the auto-fix prompt was 'y'
\* or something else), "open" (serial.Serial returned a handle), "open_failed"
\* (serial.Serial raised), "esp", "silent" or "io_error" (what the write and
\* the read on the open handle gave), "close" (the handle was closed),
\* "write_config" (config.ini of a project was written), "ctrl_c" or
\* "error" (how the read loop of the session ended); by is "probe" or
\* "session" (or the project), rate the integer rate the step is about.
Event(ev, by, rate) == [ev |-> ev, by |-> by, rate |-> rate]

\* what the device on the selected port does with a handle asked for at
\* rate: it answers with its boot text ("esp") at the rates of
\* dev.answer_at, and does dev.fail at every other rate: "silent" (no
\* signature in the bytes read), "open_error" (serial.Serial raises
\* SerialException) or "io_error" (write raises OSError)
Response(dev, rate) ==
  IF rate \in dev.answer_at THEN "esp" ELSE dev.fail

\* ser.is_open after the events of log
RECURSIVE IsOpen(_)
IsOpen(log) ==
  IF Len(log) = 0 THEN FALSE
  ELSE LET e == log[Len(log)]
       IN IF e.ev = "open" THEN TRUE
          ELSE IF e.ev = "close" THEN FALSE
          ELSE IsOpen(SubSeq(log, 1, Len(log) - 1))

\* ser.close(): closes an open handle, does nothing on a closed one
ser_close(log, by, rate) ==
  IF IsOpen(log) THEN Append(log, Event("close", by, rate)) ELSE log

\* a with block that never closes its handle
with_exit_leak(log, by, rate) == log

\* the end of a block 'with serial.Serial(...) as ser', however it is left:
\* Serial.__exit__ closes the handle
with_exit(log, by, rate) == ser_close(log, by, rate)

\* __test_connection(port_test, baud_test): the events it adds to log and
\* the value it returns
test_connection(dev, log, baud_test) ==
  LET r == Response(dev, baud_test)
  IN IF r = "open_error"
     THEN [ok  |-> FALSE,
           log |-> Append(log, Event("open_failed", "probe", baud_test))]
     ELSE [ok  |-> (r = "esp"),
           log |-> with_exit(log \o <<Event("open", "probe", baud_test),
                                      Event(r, "probe", baud_test)>>,
                             "probe", baud_test)]

\* config.set('Settings', 'Baud_Rate', value): the option name goes through
\* optionxform; the section must exist
config_set_baud(cfg, value) ==
  JoinOne(PutOpt(cfg, SettingsName, BaudKey, value), SettingsName, BaudKey)

\* repr(s) of a string: in double quotes when it holds a single quote and
\* no double quote, else in single quotes; a backslash and the quote of the
\* chosen kind are escaped with a backslash, tab, newline and carriage
\* return are written \t, \n and \r, and the other characters that are not
\* printable (form feed, no-break space, soft hyphen) \x and two hexadecimal
\* digits
ReprQuote(s) ==
  IF Find(s, "'") > 0 /\ Find(s, "\"") = 0 THEN "\"" ELSE "'"

ReprChar(c, quote) ==
  IF c = "\\" \/ c = quote THEN <<"\\", c>>
  ELSE IF c = "\t" THEN <<"\\", "t">>
  ELSE IF c = "\n" THEN <<"\\", "n">>
  ELSE IF c = "\r" THEN <<"\\", "r">>
  ELSE IF c = "\f" THEN <<"\\", "x", "0", "c">>
  ELSE IF c = " " THEN <<"\\", "x", "a", "0">>
  ELSE IF c = "­" THEN <<"\\", "x", "a", "d">>
  ELSE <<c>>

RECURSIVE ReprBody(_, _)
ReprBody(s, quote) ==
  IF Len(s) = 0 THEN <<>>
  ELSE ReprChar(Head(s), quote) \o ReprBody(Tail(s), quote)

ReprStr(s) == <<ReprQuote(s)>> \o ReprBody(s, ReprQuote(s)) \o <<ReprQuote(s)>>

\* str(lines) of a list of strings
RECURSIVE ListItems(_)
ListItems(lines) ==
  IF Len(lines) = 0 THEN <<>>
  ELSE IF Len(lines) = 1 THEN ReprStr(lines[1])
  ELSE ReprStr(lines[1]) \o <<",", " ">> \o ListItems(Tail(lines))

ListRepr(lines) == <<"[">> \o ListItems(lines) \o <<"]">>

\* the options of section s as RawConfigParser._write_section writes them:
\* str(value) of the stored value, without interpolation
WrittenOpts(cfg, s) ==
  LET opts == SectionOpts(cfg, s)
  IN [i \in DOMAIN opts |->
        <<opts[i][1],
          IF IsList(cfg, s, opts[i][1])
          THEN ListRepr(ListLines(cfg, s, opts[i][1]))
          ELSE opts[i][2]>>]

\* the sections self.config.write(configfile) writes: the default section
\* first when it holds an option, then every section of the parser
WrittenFile(cfg) ==
  (IF Len(cfg.defaults) > 0
   THEN <<[name |-> DefaultSect, opts |-> WrittenOpts(cfg, DefaultSect)]>>
   ELSE <<>>)
  \o [i \in DOMAIN cfg.sections |->
        [name |-> cfg.sections[i].name,
         opts |-> WrittenOpts(cfg, cfg.sections[i].name)]]

\* with open(path, 'w') as configfile: self.config.write(configfile)
config_write(cfg, dir) ==
  [dir EXCEPT !.has_config = TRUE, !.file = WrittenFile(cfg)]

\* the body of the sweep loop after a probe at rate succeeded: the rate is
\* set in the parser and the parser written to the project's config.ini;
\* raised says that an exception left the loop (no [Settings] section in
\* the parser, or os.path.join with project_name None)
persist_rate(cfg, dsk, log, project_name, rate) ==
  IF SettingsName \notin Sections(cfg)
  THEN [config |-> cfg, disk |-> dsk, log |-> log, raised |-> TRUE]
  ELSE
    LET cfg1 == config_set_baud(cfg, IntToStr(rate))
    IN IF project_name = NoneName
       THEN [config |-> cfg1, disk |-> dsk, log |-> log, raised |-> TRUE]
       ELSE [config |-> cfg1,
             disk   |-> [dsk EXCEPT ![project_name] = config_write(cfg1, @)],
             log    |-> Append(log, Event("write_config", project_name, rate)),
             raised |-> FALSE]

\* for rate in rates: if __test_connection(selected_port, rate): ... break
RECURSIVE SweepLoop(_, _, _, _, _, _)
SweepLoop(dev, rates, cfg, dsk, log, project_name) ==
  IF Len(rates) = 0
  THEN [found |-> FALSE, rate |-> 0, config |-> cfg, disk |-> dsk,
        log |-> log, raised |-> FALSE]
  ELSE
    LET t == test_connection(dev, log, Head(rates))
    IN IF t.ok
       THEN LET w == persist_rate(cfg, dsk, t.log, project_name, Head(rates))
            IN [found |-> TRUE, rate |-> Head(rates), config |-> w.config,
                disk |-> w.disk, log |-> w.log, raised |-> w.raised]
       ELSE SweepLoop(dev, Tail(rates), cfg, dsk, t.log, project_name)

\* a sweep loop whose else branch does not return
for_else_falls_through(found) == FALSE

\* the else branch of the sweep loop runs when no probe broke out of the
\* loop, and returns to the menu
for_else_returns(found) == ~found

\* with serial.Serial(selected_port, int(baud_rate), timeout=1) as ser: the
\* read loop runs until session_end ("ctrl_c" or "error"), whose handler
\* closes the handle when it is open; the with block is then left
session(dev, log, rate, session_end) ==
  IF Response(dev, rate) = "open_error"
  THEN Append(log, Event("open_failed", "session", rate))
  ELSE with_exit(ser_close(log \o <<Event("open", "session", rate),
                                     Event(session_end, "session", rate)>>,
                           "session", rate),
                 "session", rate)

\* ESP32.__start_communication(project_name, baud_rate) with the parser cfg
\* and the folders dsk: has_port says that a COM port exists and was
\* selected, dev is the device on it, opt_in the answer 'y' to the auto-fix
\* prompt, session_end how the session is ended.  The result is the parser,
\* the folders and the events of the call.  For a baud rate that int()
\* cannot read, int(baud_test) in __test_connection raises ValueError, which
\* ends the call in the except branch of line 565.
start_communication(cfg, dsk, project_name, baud_rate, has_port, dev, opt_in, session_end) ==
  LET known == IF IntRaises(baud_rate) THEN 0 ELSE ToInt(baud_rate)
      log0  == <<Event("start", project_name, known)>>
  IN IF ~has_port \/ IntRaises(baud_rate)
     THEN [config |-> cfg, disk |-> dsk, log |-> log0]
     ELSE
       LET t1 == test_connection(dev, log0, known)
       IN IF t1.ok
          THEN [config |-> cfg, disk |-> dsk,
                log |-> session(dev, t1.log, known, session_end)]
          ELSE IF opt_in
          THEN
            LET sw == SweepLoop(dev, SweepRates, cfg, dsk,
                                Append(t1.log, Event("opt_in", "probe", known)),
                                project_name)
            IN IF sw.raised \/ for_else_returns(sw.found)
               THEN [config |-> sw.config, disk |-> sw.disk, log |-> sw.log]
               ELSE [config |-> sw.config, disk |-> sw.disk,
                     log |-> session(dev, sw.log,
                                     IF sw.found THEN sw.rate ELSE known,
                                     session_end)]
          ELSE [config |-> cfg, disk |-> dsk,
                log |-> session(dev,
                                Append(t1.log, Event("opt_out", "probe", known)),
                                known, session_end)]

\* ------------------------------------------------------------------------
\* The folders under ./esp32 and the inputs of the model
\* ------------------------------------------------------------------------

\* os.listdir(self.esp32_folder), in listing order
Projects == <<"p1", "p2", "p3">>

ProjectSet == {Projects[i] : i \in DOMAIN Projects}

a_bin == <<"a",".","b","i","n">>
b_bin == <<"b",".","b","i","n">>
c_bin == <<"c",".","b","i","n">>
A_bin == <<"A",".","b","i","n">>
lib_dir == <<"l","i","b">>
Baud_Rate == <<"B","a","u","d","_","R","a","t","e">>

hex_1000 == <<"0","x","1","0","0","0">>
hex_2000 == <<"0","x","2","0","0","0">>
hex_1A2b == <<"0","x","1","A","2","b">>
dec_1000 == <<"1","0","0","0">>
hex_ZZ   == <<"0","x","Z","Z">>
HEX_1A   == <<"0","X","1","A">>
hex_10pc == <<"0","x","1","0","%">>
d_bin    == <<"d",".","b","i","n">>
lnk_dir  == <<"l","n","k">>
E_bin    == <<"É",".","b","i","n">>
path_fw  == <<"C",":","\\","f","w","\\","i","t","'","s">>

baud_115200  == <<"1","1","5","2","0","0">>
baud_3500000 == <<"3","5","0","0","0","0","0">>
baud_minus5  == <<"-","5">>
baud_abc     == <<"a","b","c">>
baud_sup2    == <<"²">>

\* an entry of a project folder: is_dir is os.path.isdir of the entry,
\* which follows symbolic links, is_link is os.path.islink
PlainFile(name) == [name |-> name, is_dir |-> FALSE, is_link |-> FALSE]
Subfolder(name) == [name |-> name, is_dir |-> TRUE, is_link |-> FALSE]
DirLink(name)   == [name |-> name, is_dir |-> TRUE, is_link |-> TRUE]

SettingsSection(opts) == <<[name |-> SettingsName, opts |-> opts]>>

Folder(has_config, file, listing) ==
  [has_config |-> has_config, file |-> file, listing |-> listing]

\* no config.ini
DirNoConfig == Folder(FALSE, <<>>, <<PlainFile(a_bin)>>)

\* a config.ini without a [Settings] section
DirNoSection ==
  Folder(TRUE, <<[name |-> "Other", opts |-> << <<a_bin, hex_1000>> >>]>>,
         <<PlainFile(a_bin)>>)

\* a clean project
DirOk ==
  Folder(TRUE,
         SettingsSection(<< <<Baud_Rate, baud_115200>>, <<a_bin, hex_1000>> >>),
         <<PlainFile(a_bin)>>)

\* a clean project whose binary has an upper-case letter in its name
DirCase ==
  Folder(TRUE,
         SettingsSection(<< <<Baud_Rate, baud_115200>>, <<A_bin, hex_1A2b>> >>),
         <<PlainFile(A_bin)>>)

\* three binaries at one address, a baud rate that is not a number
DirThree ==
  Folder(TRUE,
         SettingsSection(<< <<Baud_Rate, baud_abc>>, <<a_bin, hex_1000>>,
                            <<b_bin, hex_1000>>, <<c_bin, hex_1000>> >>),
         <<PlainFile(a_bin), PlainFile(b_bin), PlainFile(c_bin)>>)

\* two unreferenced binaries, a dangling entry with a decimal address, a
\* subfolder, a baud rate above every supported rate
DirMismatch ==
  Folder(TRUE,
         SettingsSection(<< <<Baud_Rate, baud_3500000>>, <<b_bin, dec_1000>> >>),
         <<PlainFile(a_bin), Subfolder(lib_dir), PlainFile(c_bin)>>)

\* two binaries at one address that is not hex, an entry with an upper-case
\* 0X prefix, a negative baud rate
DirBadAddr ==
  Folder(TRUE,
         SettingsSection(<< <<Baud_Rate, baud_minus5>>, <<a_bin, hex_ZZ>>,
                            <<b_bin, hex_ZZ>>, <<c_bin, HEX_1A>> >>),
         <<PlainFile(a_bin), PlainFile(b_bin)>>)

\* no Baud_Rate entry
DirNoBaud ==
  Folder(TRUE, SettingsSection(<< <<a_bin, hex_2000>> >>),
         <<PlainFile(a_bin)>>)

\* a clean project with a baud rate above every supported rate
DirHighBaud ==
  Folder(TRUE,
         SettingsSection(<< <<Baud_Rate, baud_3500000>>, <<a_bin, hex_1000>> >>),
         <<PlainFile(a_bin)>>)

\* an address with a percent sign, which the parser cannot expand
DirPercent ==
  Folder(TRUE,
         SettingsSection(<< <<Baud_Rate, baud_115200>>, <<a_bin, hex_10pc>> >>),
         <<PlainFile(a_bin)>>)

\* two entries whose names differ in letter case only: one option to the
\* parser, given twice
DirDupCase ==
  Folder(TRUE,
         SettingsSection(<< <<Baud_Rate, baud_115200>>, <<a_bin, hex_1000>>,
                            <<A_bin, hex_2000>> >>),
         <<PlainFile(a_bin)>>)

\* a config.ini with two [Settings] sections
DirDupSection ==
  Folder(TRUE,
         <<[name |-> SettingsName, opts |-> << <<Baud_Rate, baud_115200>> >>],
           [name |-> "Other", opts |-> << <<b_bin, hex_2000>> >>],
           [name |-> SettingsName, opts |-> << <<a_bin, hex_1000>> >>]>>,
         <<PlainFile(a_bin)>>)

\* a config.ini with an entry in the [DEFAULT] section
DirDefault ==
  Folder(TRUE,
         <<[name |-> DefaultSect, opts |-> << <<d_bin, hex_2000>> >>],
           [name |-> SettingsName,
            opts |-> << <<Baud_Rate, baud_115200>>, <<a_bin, hex_1000>> >>]>>,
         <<PlainFile(a_bin)>>)

\* a clean project with a subfolder and a symbolic link to a directory
DirLinked ==
  Folder(TRUE,
         SettingsSection(<< <<Baud_Rate, baud_115200>>, <<a_bin, hex_1000>> >>),
         <<PlainFile(a_bin), Subfolder(lib_dir), DirLink(lnk_dir)>>)

\* an option given twice, and a subfolder
DirDupSub ==
  Folder(TRUE,
         SettingsSection(<< <<Baud_Rate, baud_115200>>, <<a_bin, hex_1000>>,
                            <<a_bin, hex_2000>> >>),
         <<PlainFile(a_bin), Subfolder(lib_dir)>>)

\* a baud rate that str.isdigit accepts and int rejects
DirSupBaud ==
  Folder(TRUE,
         SettingsSection(<< <<Baud_Rate, baud_sup2>>, <<a_bin, hex_1000>> >>),
         <<PlainFile(a_bin)>>)

\* a clean project whose binary has an accented upper-case letter in its
\* name
DirAccent ==
  Folder(TRUE,
         SettingsSection(<< <<Baud_Rate, baud_115200>>, <<E_bin, hex_1000>> >>),
         <<PlainFile(E_bin)>>)

\* an option given twice, the first value with backslashes and a quote
DirDupQuote ==
  Folder(TRUE,
         SettingsSection(<< <<Baud_Rate, baud_115200>>, <<a_bin, path_fw>>,
                            <<a_bin, hex_2000>> >>),
         <<PlainFile(a_bin)>>)

\* the folders a project starts as
ProjectDirs ==
  {DirNoConfig, DirNoSection, DirOk, DirCase, DirThree, DirMismatch,
   DirBadAddr, DirNoBaud, DirHighBaud, DirPercent, DirDupCase,
   DirDupSection, DirDefault, DirLinked, DirSupBaud, DirAccent, DirDupQuote}

\* the folders the second project of the listing starts as
SecondProjectDirs == {DirNoSection}

\* the folders the last project of the listing starts as
LastProjectDirs == {DirHighBaud}

\* the folders a manual fix leaves behind
EditDirs == {DirOk, DirNoSection, DirNoBaud, DirHighBaud}

\* the answers given to the prompts of __generate_config: the baud rate,
\* and the address typed at the first, second and third address prompt
RegenBaud == baud_115200
RegenAddresses == <<hex_1000, hex_2000, hex_1A2b>>

\* the devices that may sit on the selected COM port
DevBoot115200  == [answer_at |-> {115200}, fail |-> "silent"]
DevTwoRates    == [answer_at |-> {9600, 115200}, fail |-> "io_error"]
DevSilent      == [answer_at |-> {}, fail |-> "silent"]
DevBusy        == [answer_at |-> {}, fail |-> "open_error"]

Devices == {DevBoot115200, DevTwoRates, DevSilent, DevBusy}

\* how the read loop of a session is ended
SessionEnds == {"ctrl_c", "error"}

\* the answer to the prompt of Get.valid_baud_rate in a Temporary session
TemporaryBaud == <<"9","6","0","0">>

\* ------------------------------------------------------------------------
\* State
\* ------------------------------------------------------------------------

VARIABLES
  disk,        \* folder name -> content of ./esp32/<folder>
  config,      \* self.config, the parser ESP32 and Check share
  menu_items,  \* self.menu_items
  phase,       \* "init" before __load_menu_items has run, "menu" while a
               \* menu is shown, "done" when an operation has just ended
  calls,       \* the validator calls of the last operation, in order
  last_op,     \* the last operation and the project it was about
  flash_call,  \* the call of esptool.main made by the last operation
  fixes,       \* fixes asked for so far: folder changes made from the
               \* issues menu and accepted auto-fixes of the baud rate
  events       \* the events of the last operation, if a communication

vars == <<disk, config, menu_items, phase, calls, last_op, flash_call,
          fixes, events>>

Op(op, name) == [op |-> op, name |-> name]

\* ESP32.__init__ up to the call of __load_menu_items
Start(dsk) ==
  /\ disk = dsk
  /\ config = EmptyParser
  /\ menu_items = <<>>
  /\ phase = "init"
  /\ calls = <<>>
  /\ last_op = Op("none", "")
  /\ flash_call = NoFlash
  /\ fixes = 0
  /\ events = <<>>

\* a first project with a clean config.ini, a second one that gives an
\* option twice and holds a subfolder
CommDisk ==
  [p \in ProjectSet |->
     IF p = "p1" THEN DirOk ELSE IF p = "p2" THEN DirDupSub ELSE DirHighBaud]

\* the folders ./esp32 holds when the program is started
StartDisks ==
  {dsk \in [ProjectSet -> ProjectDirs] :
     /\ dsk[Projects[2]] \in SecondProjectDirs
     /\ dsk[Projects[Len(Projects)]] \in LastProjectDirs} \cup {CommDisk}

\* the program is started on any of the explored folders
Init == \E dsk \in StartDisks : Start(dsk)

\* ESP32.__load_menu_items
LoadMenuItems ==
  /\ phase = "init"
  /\ LET r == LoadLoop(Projects, disk, config, <<>>, <<>>)
     IN /\ config' = r.config
        /\ menu_items' = r.menu_items
        /\ calls' = r.log
  /\ phase' = "done"
  /\ last_op' = Op("load", "")
  /\ flash_call' = NoFlash
  /\ events' = <<>>
  /\ UNCHANGED <<disk, fixes>>

\* a flasher menu that sends every project to the flash step
NeedsFixNever(item) == FALSE

\* ESP32.__handle_issues, 'if error:': the entry picked in the flasher menu
\* goes to the issues menu, and not to the flash step, when its error flag
\* is set
NeedsFix(item) == item.error

\* the tail of ESP32.__handle_issues for a project with issues, once
\* __show_issues has left the folder as dir1:
\* self.check.project(self.menu_items, folder_name, folder_path)
Revalidate(i, dir1) ==
  LET folder_name == menu_items[i].name
      res         == for_issues(config, dir1)
  IN /\ disk' = [disk EXCEPT ![folder_name] = dir1]
     /\ config' = res.config
     /\ menu_items' = project(menu_items, folder_name, res.issues, res.warn)
     /\ calls' = <<Call(folder_name, dir1, res)>>
     /\ last_op' = Op("project", folder_name)
     /\ flash_call' = NoFlash
     /\ events' = <<>>

\* __handle_issues, issues shown, option 1: the user changes the folder by
\* hand, then the project is checked again
FixManually(i) ==
  /\ phase = "menu"
  /\ NeedsFix(menu_items[i])
  /\ fixes < MaxFixes
  /\ \E dir1 \in EditDirs :
       /\ dir1 # disk[menu_items[i].name]
       /\ Revalidate(i, dir1)
  /\ fixes' = fixes + 1
  /\ phase' = "done"

\* __handle_issues, issues shown, option 2: __generate_config, then the
\* project is checked again; exit_typed says that the user typed 'exit' at
\* one of the prompts of __generate_config
RegenerateWith(i, exit_typed) ==
  /\ phase = "menu"
  /\ NeedsFix(menu_items[i])
  /\ fixes < MaxFixes
  /\ LET dir0 == disk[menu_items[i].name]
         n    == Len(ListBinFiles(dir0.listing))
     IN /\ n <= Len(RegenAddresses)
        /\ Revalidate(i, generate_config(dir0, RegenBaud,
                                         SubSeq(RegenAddresses, 1, n),
                                         exit_typed))
  /\ fixes' = fixes + 1
  /\ phase' = "done"

Regenerate(i) == \E exit_typed \in BOOLEAN : RegenerateWith(i, exit_typed)

\* __handle_issues, issues shown, option 3: delete_subdirectories, then the
\* project is checked again
RemoveSubdirectories(i) ==
  /\ phase = "menu"
  /\ NeedsFix(menu_items[i])
  /\ Len(ListSubfolders(disk[menu_items[i].name].listing)) > 0
  /\ Revalidate(i, delete_subdirectories(disk[menu_items[i].name]))
  /\ phase' = "done"
  /\ UNCHANGED fixes

\* __handle_issues, issues shown, any other answer (or option 1 with the
\* folder left as it is): the project is checked again
Recheck(i) ==
  /\ phase = "menu"
  /\ NeedsFix(menu_items[i])
  /\ Revalidate(i, disk[menu_items[i].name])
  /\ phase' = "done"
  /\ UNCHANGED fixes

\* __handle_issues for a project without stored issues: __flash_esp32
Flash(i) ==
  /\ phase = "menu"
  /\ ~NeedsFix(menu_items[i])
  /\ LET folder_name == menu_items[i].name
         rd          == config_read(config, disk[folder_name])
     IN /\ config' = rd.config
        /\ \E has_port \in BOOLEAN :
             flash_call' = flash_esp32(rd, folder_name, has_port)
        /\ last_op' = Op("flash", folder_name)
  /\ calls' = <<>>
  /\ events' = <<>>
  /\ phase' = "done"
  /\ UNCHANGED <<disk, menu_items, fixes>>

\* the operation has returned and a menu is shown again: what the last
\* operation did is no longer looked at
ReturnToMenu ==
  /\ phase = "done"
  /\ phase' = "menu"
  /\ last_op' = Op("none", "")
  /\ calls' = <<>>
  /\ flash_call' = NoFlash
  /\ events' = <<>>
  /\ UNCHANGED <<disk, config, menu_items, fixes>>

\* the answers the auto-fix prompt can get: it is shown only when the probe
\* at the known rate failed, and an accepted auto-fix counts as a fix
AutoFixAnswers(dev, baud_rate) ==
  IF IntRaises(baud_rate) THEN {FALSE}
  ELSE IF Response(dev, ToInt(baud_rate)) = "esp" THEN {FALSE}
  ELSE IF fixes < MaxFixes THEN BOOLEAN ELSE {FALSE}

\* the ways the read loop can end: it runs only when the session has
\* opened its handle
SessionEndsOf(cfg1, project_name, baud_rate, selected, dev, opt_in) ==
  LET r == start_communication(cfg1, disk, project_name, baud_rate,
                               selected, dev, opt_in, "ctrl_c")
  IN IF \E k \in DOMAIN r.log : r.log[k].ev = "ctrl_c"
     THEN SessionEnds ELSE {"ctrl_c"}

\* __start_communication(project_name, baud_rate) as a step of the program,
\* from the parser cfg1
StartCommunication(cfg1, project_name, baud_rate) ==
  \E selected \in BOOLEAN :
    \E dev \in IF selected THEN Devices ELSE {DevSilent} :
      \E opt_in \in IF selected THEN AutoFixAnswers(dev, baud_rate)
                    ELSE {FALSE} :
        \E session_end \in SessionEndsOf(cfg1, project_name, baud_rate,
                                         selected, dev, opt_in) :
          LET r == start_communication(cfg1, disk, project_name, baud_rate,
                                       selected, dev, opt_in, session_end)
          IN /\ config' = r.config
             /\ disk' = r.disk
             /\ events' = r.log
             /\ fixes' = IF opt_in THEN fixes + 1 ELSE fixes

\* ESP32._communication_menu, 'if not ports: return': no COM port exists
\* when the menu is opened
NoPortsFound ==
  /\ events' = <<>>
  /\ UNCHANGED <<config, disk, fixes>>

\* ESP32._communication_menu, choice 1 (Temporary): the baud rate is asked
\* for, then __start_communication(None, baud_rate)
CommunicateTemporary ==
  /\ phase = "menu"
  /\ \/ NoPortsFound
     \/ StartCommunication(config, NoneName, TemporaryBaud)
  /\ last_op' = Op("communicate", NoneName)
  /\ calls' = <<>>
  /\ flash_call' = NoFlash
  /\ phase' = "done"
  /\ UNCHANGED menu_items

\* ESP32._communication_menu, choice i + 1: the project's config.ini is
\* read into the parser, and __start_communication(folder_name, baud_rate)
\* is called when the parser then holds a Baud_Rate of digits; a read or a
\* get that raises ends in the except branch of the menu
CommunicateProject(i) ==
  /\ phase = "menu"
  /\ \/ NoPortsFound
     \/ LET folder_name == menu_items[i].name
            rd          == config_read(config, disk[folder_name])
            baud_rate   == config_get_baud(rd.config)
        IN IF rd.raised \/ baud_rate = RaiseStr
              \/ baud_rate = NoneStr \/ ~IsDigit(baud_rate)
           THEN /\ config' = rd.config
                /\ events' = <<>>
                /\ UNCHANGED <<disk, fixes>>
           ELSE StartCommunication(rd.config, folder_name, baud_rate)
  /\ last_op' = Op("communicate", menu_items[i].name)
  /\ calls' = <<>>
  /\ flash_call' = NoFlash
  /\ phase' = "done"
  /\ UNCHANGED menu_items

\* ESP32.__init__, then ESP32.main_menu, options 1 and 2: the flasher menu
\* with its issues menu, and the communication menu
Next ==
  \/ LoadMenuItems
  \/ \E i \in DOMAIN menu_items : FixManually(i)
  \/ \E i \in DOMAIN menu_items : Regenerate(i)
  \/ \E i \in DOMAIN menu_items : RemoveSubdirectories(i)
  \/ \E i \in DOMAIN menu_items : Recheck(i)
  \/ \E i \in DOMAIN menu_items : Flash(i)
  \/ CommunicateTemporary
  \/ \E i \in DOMAIN menu_items : CommunicateProject(i)
  \/ ReturnToMenu

Spec == Init /\ [][Next]_vars

\* ------------------------------------------------------------------------
\* Vocabulary of the properties
\* ------------------------------------------------------------------------

\* the calls of the validator made by the last operation
CallSet == {calls[i] : i \in DOMAIN calls}

\* the folder's own config.ini has a [Settings] section
HasOwnSettings(dir) ==
  /\ dir.has_config
  /\ \E s \in DOMAIN dir.file : dir.file[s].name = SettingsName

\* the entries of the [Settings] section of the folder's own config.ini, as
\* written in the file
OwnSettings(dir) ==
  dir.file[CHOOSE s \in DOMAIN dir.file : dir.file[s].name = SettingsName].opts

\* two names that differ at most in letter case
SameName(a, b) == optionxform(a) = optionxform(b)

\* the binary entries <<key, value>> of the folder's own [Settings] section
OwnBinEntries(dir) ==
  {OwnSettings(dir)[i] : i \in {j \in DOMAIN OwnSettings(dir) :
       IsBinName(optionxform(OwnSettings(dir)[j][1]))}}

\* the binary files in the folder
PresentBinaries(dir) ==
  {dir.listing[i].name : i \in {j \in DOMAIN dir.listing :
       IsBinName(dir.listing[j].name)}}

\* the positions of the issues of one kind in a list of issues
IssuesOfKind(issues, kind) == {i \in DOMAIN issues : issues[i].kind = kind}

\* the issue list a catalog entry holds; None holds no issue
StoredIssues(item) == IF item.issues.is_none THEN <<>> ELSE item.issues.list

\* the catalog entry of a project
EntryOf(name) == menu_items[CHOOSE i \in DOMAIN menu_items : menu_items[i].name = name]

\* ------------------------------------------------------------------------
\* Properties
\* ------------------------------------------------------------------------

\* C1: every call of the validator returns the issues and warnings that the
\* validator returns for the same folder on a freshly started program, whose
\* parser has read no other project's configuration.
C1_ValidateDependsOnOwnProject ==
  \A c \in CallSet :
    /\ c.issues = for_issues(EmptyParser, c.dir).issues
    /\ c.warn = for_issues(EmptyParser, c.dir).warn

\* C2: every call of the validator on a folder whose config.ini exists and
\* has no [Settings] section returns the one issue MissingSection and no
\* warning.
C2_MissingSectionShortCircuit ==
  \A c \in CallSet :
    (c.dir.has_config /\ ~HasOwnSettings(c.dir))
      => /\ c.issues = <<Issue("MissingSection", <<>>, <<>>, <<>>)>>
         /\ c.warn = <<>>

\* C3: every call of the validator on a folder without config.ini returns
\* the one issue MissingConfig and no warning.
C3_MissingConfigShortCircuit ==
  \A c \in CallSet :
    ~c.dir.has_config
      => /\ c.issues = <<Issue("MissingConfig", <<>>, <<>>, <<>>)>>
         /\ c.warn = <<>>

\* a re-validation of a folder without config.ini, made when the parser
\* already holds a [Settings] section with a baud rate above the limit
C3_Witness ==
  /\ last_op.op = "project"
  /\ \E c \in CallSet : ~c.dir.has_config /\ c.folder = last_op.name
  /\ SettingsName \in Sections(config)
  /\ config_get_baud(config) = baud_3500000

\* C4: in every call of the validator on a folder whose config.ini has a
\* [Settings] section, each binary in the folder without an entry gets
\* exactly one UnreferencedBinary issue, each entry whose binary is not in
\* the folder gets exactly one DanglingReference issue, and no binary gets
\* both; names are compared without regard to letter case.
C4_UnreferencedXorDangling ==
  \A c \in CallSet :
    HasOwnSettings(c.dir) =>
      LET present == PresentBinaries(c.dir)
          entries == {e[1] : e \in OwnBinEntries(c.dir)}
          unref   == IssuesOfKind(c.issues, "UnreferencedBinary")
          dang    == IssuesOfKind(c.issues, "DanglingReference")
      IN /\ \A n \in present :
              (~\E k \in entries : SameName(k, n))
                => Cardinality({i \in unref : c.issues[i].name = n}) = 1
         /\ \A k \in entries :
              (~\E n \in present : SameName(k, n))
                => Cardinality({i \in dang :
                                  SameName(c.issues[i].name, k)}) = 1
         /\ \A i \in unref, j \in dang :
              ~SameName(c.issues[i].name, c.issues[j].name)

\* C5: in every call of the validator the conflict issues about one address
\* all name the same other key, the earliest holder of the address, which
\* comes before the current key in the listing; k keys sharing an address
\* give k - 1 issues.
C5_ConflictNamesEarliestHolder ==
  \A c \in CallSet :
    LET conf == IssuesOfKind(c.issues, "MemoryConflict")
        keys == ListBinFiles(c.dir.listing)
        Pos(k) == CHOOSE p \in DOMAIN keys : keys[p] = k
    IN \A i \in conf :
         /\ Pos(c.issues[i].other) < Pos(c.issues[i].name)
         /\ \A j \in conf :
              c.issues[j].value = c.issues[i].value
                => c.issues[j].other = c.issues[i].other
         /\ Cardinality({j \in conf : c.issues[j].value = c.issues[i].value})
              = Cardinality({c.issues[j].name : j \in
                   {m \in conf : c.issues[m].value = c.issues[i].value}}
                   \cup {c.issues[i].other}) - 1

\* the hexadecimal digits, as the specification of an address names them
AddressDigits ==
  {"0","1","2","3","4","5","6","7","8","9",
   "a","b","c","d","e","f","A","B","C","D","E","F"}

\* an address with the prefix 0x or 0X followed only by hexadecimal digits
AnyCasePrefixAddress(v) ==
  /\ Len(v) >= 2
  /\ v[1] = "0"
  /\ v[2] \in {"x", "X"}
  /\ \A i \in DOMAIN v : i > 2 => v[i] \in AddressDigits

\* C6 as stated: in every call of the validator on a folder whose
\* config.ini has a [Settings] section, a binary entry's value is reported
\* as InvalidAddress exactly when it is not 0x or 0X followed by hex digits.
C6_InvalidAddressIffNotHexAnyCase ==
  \A c \in CallSet :
    HasOwnSettings(c.dir) =>
      \A e \in OwnBinEntries(c.dir) :
        (\E i \in IssuesOfKind(c.issues, "InvalidAddress") :
            c.issues[i].value = e[2])
          <=> ~AnyCasePrefixAddress(e[2])

\* the Baud_Rate value of the folder's own [Settings] section, NoneStr when
\* the section has no such entry
OwnBaudRate(dir) ==
  LET own == OwnSettings(dir)
      at  == {i \in DOMAIN own : SameName(own[i][1], Baud_Rate)}
  IN IF at = {} THEN NoneStr ELSE own[CHOOSE i \in at : TRUE][2]

\* C7: in every call of the validator on a folder whose config.ini has a
\* [Settings] section: a missing, non-numeric or negative Baud_Rate gives a
\* baud-rate issue; a non-negative integer gives no baud-rate issue, the
\* warning Unusual exactly when it is not a supported rate and the warning
\* UnusuallyHigh exactly when it is above 2,000,000.
C7_BaudRateClassification ==
  \A c \in CallSet :
    HasOwnSettings(c.dir) =>
      LET b == OwnBaudRate(c.dir)
          baud_issues == IssuesOfKind(c.issues, "InvalidBaudRate")
                         \cup IssuesOfKind(c.issues, "NegativeBaudRate")
          unusual == {i \in DOMAIN c.warn : c.warn[i].kind = "Unusual"}
          high    == {i \in DOMAIN c.warn : c.warn[i].kind = "UnusuallyHigh"}
      IN IF b = NoneStr \/ ~IsDigit(b) \/ IntRaises(b)
         THEN baud_issues # {}
         ELSE /\ baud_issues = {}
              /\ (unusual # {}) <=>
                   (\A r \in DOMAIN esp32_supported_baudrates :
                      esp32_supported_baudrates[r] # ToInt(b))
              /\ (high # {}) <=> (ToInt(b) > 2000000)

\* C8: after a re-validation the catalog entry of the re-validated project
\* holds the issues, the warnings and the validity that this run of the
\* validator returned.
C8_RevalidateStoresResult ==
  (last_op.op = "project") =>
    LET c == calls[1]
        e == EntryOf(last_op.name)
    IN /\ StoredIssues(e) = c.issues
       /\ e.error = (Len(c.issues) > 0)
       /\ e.warn = c.warn

\* C9: a re-validation leaves the number of entries and their names in
\* place and changes no entry other than the one of the re-validated
\* project.
C9_RevalidateFrame ==
  [][(last_op'.op = "project") =>
       /\ Len(menu_items') = Len(menu_items)
       /\ \A i \in DOMAIN menu_items :
            /\ menu_items'[i].name = menu_items[i].name
            /\ menu_items[i].name # last_op'.name
                 => menu_items'[i] = menu_items[i]]_vars

\* a re-validation of the second of three projects has replaced its entry:
\* only Check.project stores None, and the entries around it hold issues
\* and warnings
C9_Witness ==
  /\ last_op.op = "project"
  /\ Len(menu_items) = 3
  /\ menu_items[2].name = last_op.name
  /\ menu_items[2].issues.is_none
  /\ menu_items[1].error
  /\ Len(menu_items[3].warn) > 0

\* C10: every catalog entry is flagged invalid exactly when its stored
\* issue list is non-empty, whatever its warnings are.
C10_InvalidIffIssues ==
  \A i \in DOMAIN menu_items :
    menu_items[i].error <=> (Len(StoredIssues(menu_items[i])) > 0)

\* a re-validation whose run of the validator returned warnings and no
\* issue has left its entry valid, next to an invalid entry without
\* warnings and a valid entry with warnings
C10_Witness ==
  /\ last_op.op = "project"
  /\ Len(calls[1].issues) = 0
  /\ Len(calls[1].warn) > 0
  /\ ~EntryOf(last_op.name).error
  /\ \E i \in DOMAIN menu_items :
       ~menu_items[i].error /\ Len(menu_items[i].warn) > 0
  /\ \E i \in DOMAIN menu_items :
       menu_items[i].error /\ Len(menu_items[i].warn) = 0

\* C16: in every call of the validator on a folder whose config.ini has a
\* [Settings] section, the conflict issues are about the binary entries of
\* that section: every conflict names two keys that have an entry, and two
\* entries with the same address give a conflict about that address whether
\* or not their binaries are in the folder.
C16_ConflictsOverReferencedKeys ==
  \A c \in CallSet :
    HasOwnSettings(c.dir) =>
      LET conf    == IssuesOfKind(c.issues, "MemoryConflict")
          entries == OwnBinEntries(c.dir)
      IN /\ \A i \in conf :
              /\ \E e \in entries : SameName(e[1], c.issues[i].name)
              /\ \E e \in entries : SameName(e[1], c.issues[i].other)
         /\ \A e1, e2 \in entries :
              (e1[1] # e2[1] /\ e1[2] = e2[2])
                => \E i \in conf : c.issues[i].value = e1[2]

\* C17: the (file, address) pairs handed to esptool.main for a project are
\* the binary entries of the [Settings] section of that project's own
\* config.ini.
C17_FlashMappingIsOwnEntries ==
  flash_call.made =>
    /\ HasOwnSettings(disk[flash_call.folder])
    /\ {flash_call.bin_files[i] : i \in DOMAIN flash_call.bin_files}
         = {<<optionxform(e[1]), e[2]>> :
              e \in OwnBinEntries(disk[flash_call.folder])}

\* C19: a regeneration of a project's config.ini that the user aborts by
\* typing 'exit' at the baud-rate prompt or at an address prompt leaves the
\* project's folder, and with it the existing config.ini, exactly as it was.
C19_AbortedRegenerationKeepsConfig ==
  [][\A i \in DOMAIN menu_items :
       RegenerateWith(i, TRUE) => disk' = disk]_vars

\* ------------------------------------------------------------------------
\* Properties of the communication menu
\* ------------------------------------------------------------------------

\* the events of kind ev made by by, in order
EventsOf(log, evs, by) ==
  SelectSeq(log, LAMBDA e : e.by = by /\ e.ev \in evs)

\* the probes of the last operation, in order: each begins with the attempt
\* to open the port
Probes == EventsOf(events, {"open", "open_failed"}, "probe")

\* the supported rates, as a set
SupportedRates ==
  {esp32_supported_baudrates[i] : i \in DOMAIN esp32_supported_baudrates}

\* the auto-fix prompt of the last operation was answered with 'y'
OptedIn == \E i \in DOMAIN events : events[i].ev = "opt_in"

\* the positions of the probes of the last operation that were Confirmed
ConfirmedAt ==
  {i \in DOMAIN events : events[i].ev = "esp" /\ events[i].by = "probe"}

\* C11: the first probe is at the known rate; further probes are made only
\* after the known rate failed and the user opted in, and they go through
\* the supported rates one at a time from the highest down, leaving none
\* out; no probe is started after the first Confirmed one.
C11_KnownRateThenDescendingSweep ==
  LET probes == Probes
  IN Len(probes) > 0 =>
       /\ probes[1].rate = events[1].rate
       /\ Len(probes) > 1 =>
            /\ OptedIn
            /\ \A i \in ConfirmedAt : events[i].rate # events[1].rate
       /\ \A i \in 2..Len(probes) :
            /\ probes[i].rate \in SupportedRates
            /\ i > 2 => probes[i].rate < probes[i - 1].rate
            /\ \A r \in SupportedRates :
                 r > probes[i].rate
                   => \E j \in 2..(i - 1) : probes[j].rate = r
       /\ \A i \in ConfirmedAt : \A j \in DOMAIN events :
            (j > i /\ events[j].by = "probe")
              => events[j].ev \notin {"open", "open_failed"}

\* a sweep went down to a rate below the known one and was Confirmed there
\* after more than two Rejected probes
C11_Witness ==
  /\ Len(Probes) > 3
  /\ ConfirmedAt # {}
  /\ Probes[Len(Probes)].rate < events[1].rate

\* the sweep of the events log was made and no probe was Confirmed
SweepExhausted(log) ==
  /\ \E i \in DOMAIN log : log[i].ev = "opt_in"
  /\ ~ \E i \in DOMAIN log : log[i].ev = "esp" /\ log[i].by = "probe"

\* a session handle was asked for
SessionAttempted(log) ==
  \E i \in DOMAIN log :
    log[i].by = "session" /\ log[i].ev \in {"open", "open_failed"}

\* C12: an operation whose sweep ends Exhausted asks for no session handle
\* and leaves every folder, and so the stored configuration of the project,
\* as it was.
C12_ExhaustedNoSessionNoChange ==
  [][SweepExhausted(events')
       => (disk' = disk /\ ~SessionAttempted(events'))]_vars

\* a sweep for a project went through every supported rate and was
\* Exhausted
C12_Witness ==
  /\ SweepExhausted(events)
  /\ events[1].by \in ProjectSet
  /\ Len(Probes) = 1 + Len(esp32_supported_baudrates)

\* the sweep of the last operation confirmed a rate
SweepConfirmed == OptedIn /\ ConfirmedAt # {}

\* the rate the sweep of the last operation confirmed
ConfirmedRate == events[CHOOSE i \in ConfirmedAt : TRUE].rate

\* C13: after an operation whose sweep confirmed a rate, a session handle
\* was opened at the confirmed rate; when the operation was started for a
\* project, the Baud_Rate of that project's config.ini is the confirmed
\* rate and the file was written before the session handle was opened.
C13_ConfirmedRateStoredThenSession ==
  SweepConfirmed =>
    /\ \E j \in DOMAIN events :
         events[j] = Event("open", "session", ConfirmedRate)
    /\ events[1].by \in ProjectSet =>
         /\ HasOwnSettings(disk[events[1].by])
         /\ OwnBaudRate(disk[events[1].by]) = IntToStr(ConfirmedRate)
         /\ \E i, j \in DOMAIN events :
              /\ i < j
              /\ events[i] = Event("write_config", events[1].by, ConfirmedRate)
              /\ events[j] = Event("open", "session", ConfirmedRate)

\* the number of serial handles open after the first k events
OpenHandles(k) ==
  Cardinality({i \in 1..k : events[i].ev = "open"})
    - Cardinality({i \in 1..k : events[i].ev = "close"})

\* C14: at every point of an operation at most one serial handle is open,
\* so that the handle of a probe is closed before the next probe or the
\* session opens one, and no handle is open when the operation is over,
\* however the probes and the session ended.
C14_AtMostOneHandleAndAllClosed ==
  /\ \A k \in 0..Len(events) : OpenHandles(k) \in {0, 1}
  /\ OpenHandles(Len(events)) = 0

\* probes that ended with a transport error, a Confirmed probe and a
\* session ended with Ctrl+C, each with its handle closed
C14_Witness ==
  /\ \E i \in DOMAIN events : events[i].ev = "io_error"
  /\ ConfirmedAt # {}
  /\ \E i \in DOMAIN events : events[i].ev = "ctrl_c"
  /\ Len(EventsOf(events, {"close"}, "probe")) > 2
  /\ Len(EventsOf(events, {"close"}, "session")) = 1

\* the project, if any, the last operation opened a session handle for
SessionProjects ==
  {events[1].by : i \in {j \in DOMAIN events :
      events[j].by = "session" /\ events[j].ev = "open"}} \cap ProjectSet

\* C15 as stated: neither the flash step nor a serial session is started
\* for a project whose catalog entry holds an issue.
C15_IssueBlocksFlashAndSession ==
  /\ flash_call.made => ~EntryOf(flash_call.folder).error
  /\ \A p \in SessionProjects : ~EntryOf(p).error

\* C15: the flash step is started only for a project whose catalog entry
\* holds no issue; the serial session is not gated by the stored issues.
C15_IssueBlocksFlash ==
  /\ last_op.op = "flash" => ~EntryOf(last_op.name).error
  /\ flash_call.made => Len(StoredIssues(EntryOf(flash_call.folder))) = 0

\* a project was flashed while another project, holding issues, was kept
\* from the flash step
C15_Witness ==
  /\ flash_call.made
  /\ ~EntryOf(flash_call.folder).error
  /\ \E i \in DOMAIN menu_items : Len(StoredIssues(menu_items[i])) > 0

\* the (section, option, value) triples of a config.ini other than the
\* Baud_Rate of [Settings], options compared as the parser reads them
OtherEntries(dir) ==
  IF ~dir.has_config THEN {}
  ELSE UNION {{<<dir.file[s].name, optionxform(dir.file[s].opts[o][1]),
                 dir.file[s].opts[o][2]>> : o \in DOMAIN dir.file[s].opts} :
              s \in DOMAIN dir.file}
         \ {t \in UNION {{<<dir.file[s].name,
                            optionxform(dir.file[s].opts[o][1]),
                            dir.file[s].opts[o][2]>> :
                            o \in DOMAIN dir.file[s].opts} :
                         s \in DOMAIN dir.file} :
              t[1] = SettingsName /\ t[2] = BaudKey}

\* the projects whose config.ini the events of log wrote
Persisted(log) ==
  {log[i].by : i \in {j \in DOMAIN log : log[j].ev = "write_config"}}

\* C18: an operation that persists a discovered rate for a project writes
\* that project's existing config.ini only, and leaves every key and value
\* of it other than Baud_Rate, and every other project's folder, as they
\* were.
C18_PersistChangesOnlyBaudRate ==
  [][\A p \in Persisted(events') :
       /\ \A q \in ProjectSet \ {p} : disk'[q] = disk[q]
       /\ disk'[p].listing = disk[p].listing
       /\ disk[p].has_config
       /\ OtherEntries(disk'[p]) = OtherEntries(disk[p])]_vars

====
